---- MODULE Spec2Model ----
(***************************************************************************)
(* linehaul/server.py: connection handlers decode syslog lines into        *)
(* download events and put them on a bounded queue; the sender collects    *)
(* batches from the queue, splits each batch by date and starts one        *)
(* send_batch task per sub-batch, which inserts it into the sink with      *)
(* tenacity's retry policy.                                                *)
(***************************************************************************)
EXTENDS Integers, Sequences, FiniteSets, TLC

(* ------------------------------ bounds -------------------------------- *)

\* connections accepted by serve_tcp
NumConns == 2
\* lines received over all connections
MaxInput == 3
\* lines carried by one receive_some chunk
MaxChunk == 2
\* qsize given to server()
QSize == 2
\* timeouts of the sink per sub-batch, where the whole server is explored
MaxSlow == 1
\* batch_timeout given to sender(), in clock ticks
BatchTimeout == 1

(* ------------------------- program constants -------------------------- *)

\* sender(): batch_size = 3
BatchSize == 3
\* tenacity.stop_after_attempt(15)
StopAfterAttempt == 15

Conns == 1..NumConns

None == "None"

\* the shared secret, as the characters of the token string
Secret == <<"k">>

Tokens == {None, Secret}

(* ------------------------------ inputs -------------------------------- *)

\* arrow timestamps of the events: two on 2018-01-15, one on 2018-11-05
Timestamps ==
    { [y |-> 2018, m |-> 1,  d |-> 15, h |-> 10],
      [y |-> 2018, m |-> 1,  d |-> 15, h |-> 23],
      [y |-> 2018, m |-> 11, d |-> 5,  h |-> 10] }

\* A framed line: whether its bytes are valid UTF-8, the characters before
\* the syslog message, and what the two grammars make of the rest.
\* the timestamps the received lines carry
LineTimestamps ==
    { [y |-> 2018, m |-> 1,  d |-> 15, h |-> 10],
      [y |-> 2018, m |-> 11, d |-> 5,  h |-> 10] }

GoodLines ==
    { [utf8 |-> TRUE, prefix |-> p, body |-> "event", ts |-> t] :
          p \in {<<>>, Secret}, t \in LineTimestamps }

BadLines ==
    LET t0 == [y |-> 2018, m |-> 1, d |-> 15, h |-> 10]
    IN  { [utf8 |-> FALSE, prefix |-> Secret, body |-> "event",     ts |-> t0],
          [utf8 |-> TRUE,  prefix |-> <<"x">>, body |-> "event",    ts |-> t0],
          [utf8 |-> TRUE,  prefix |-> Secret, body |-> "badsyslog", ts |-> t0],
          [utf8 |-> TRUE,  prefix |-> Secret, body |-> "badevent",  ts |-> t0],
          [utf8 |-> TRUE,  prefix |-> <<>>,   body |-> "badevent",  ts |-> t0] }

Lines == GoodLines \cup BadLines

Chunks == UNION { [1..n -> Lines] : n \in 1..MaxChunk }

\* lines that carry the token twice, or elsewhere than at their start
TokenLines ==
    LET t0 == [y |-> 2018, m |-> 1, d |-> 15, h |-> 10]
    IN  { [utf8 |-> TRUE, prefix |-> p, body |-> "event", ts |-> t0] :
              p \in {Secret \o Secret, <<"x">> \o Secret} }

\* the chunks of lines parse_line is tried on by itself
DecodeChunks == UNION { [1..n -> Lines \cup TokenLines] : n \in 1..MaxChunk }

\* mutant: the token is looked for anywhere in the line
contains(s, t) ==
    \E i \in 1..Len(s) : i + Len(t) - 1 <= Len(s) /\ SubSeq(s, i, i + Len(t) - 1) = t

(* ------------------------- non I/O functions -------------------------- *)

startswith(s, t) == Len(t) <= Len(s) /\ SubSeq(s, 1, Len(t)) = t

\* linehaul.syslog.parser.parse: a message, or ValueError
syslog_parse(prefix, body) ==
    IF prefix = <<>> /\ body # "badsyslog" THEN "msg" ELSE "ValueError"

\* linehaul.events.parser.parse: an event, or ValueError
event_parse(body) ==
    IF body = "event" THEN "event" ELSE "ValueError"

\* parse_line(line, token): [out |-> "event" | "None" | "raise", ...];
\* syslog and event count the calls of the two parsers, arg is what the
\* syslog parser is called with before the message, if it is called
parse_line(line, token) ==
    IF ~line.utf8
    THEN [out |-> "raise", exc |-> "UnicodeDecodeError", ts |-> line.ts,
          syslog |-> 0, event |-> 0, arg |-> <<>>]
    ELSE IF token # None /\ ~startswith(line.prefix, token)
    THEN [out |-> "None", exc |-> None, ts |-> line.ts, syslog |-> 0, event |-> 0,
          arg |-> <<>>]
    ELSE LET rest == IF token # None
                     THEN SubSeq(line.prefix, Len(token) + 1, Len(line.prefix))
                     ELSE line.prefix
             msg  == syslog_parse(rest, line.body)
         IN  IF msg = "ValueError"
             THEN [out |-> "None", exc |-> None, ts |-> line.ts,
                   syslog |-> 1, event |-> 0, arg |-> rest]
             ELSE IF event_parse(line.body) = "ValueError"
             THEN [out |-> "None", exc |-> None, ts |-> line.ts,
                   syslog |-> 1, event |-> 1, arg |-> rest]
             ELSE [out |-> "event", exc |-> None, ts |-> line.ts,
                   syslog |-> 1, event |-> 1, arg |-> rest]

\* decimal digits of n, without padding
RECURSIVE Digits(_)
Digits(n) == IF n < 10 THEN <<n>> ELSE Append(Digits(n \div 10), n % 10)

\* '{:04d}'.format(n)
Pad4(n) == LET ds == Digits(n)
           IN  [i \in 1..(4 - Len(ds)) |-> 0] \o ds

IsLeap(y) == (y % 4 = 0 /\ y % 100 # 0) \/ y % 400 = 0

DaysIn(y, m) ==
    IF m = 2 THEN (IF IsLeap(y) THEN 29 ELSE 28)
    ELSE IF m \in {4, 6, 9, 11} THEN 30 ELSE 31

RECURSIVE DaysBefore(_, _)
DaysBefore(y, m) == IF m = 1 THEN 0 ELSE DaysBefore(y, m - 1) + DaysIn(y, m - 1)

DayOfYear(t) == DaysBefore(t.y, t.m) + t.d

\* the calendar date of a timestamp
DateOf(t) == <<t.y, t.m, t.d>>

\* mutant: "YYYYMD", the day of the month for the day of the year
FormatYYYYMD(t) == Pad4(t.y) \o Digits(t.m) \o Digits(t.d)

\* arrow's format("YYYYMDDD"): the tokens YYYY, M and DDD, that is the
\* four-digit year, the month and the day of the year, the last two unpadded
FormatYYYYMDDD(t) == Pad4(t.y) \o Digits(t.m) \o Digits(DayOfYear(t))

extract_item_date(item) == FormatYYYYMDDD(item.ts)

\* str.__lt__ on the keys
RECURSIVE StrLess(_, _)
StrLess(a, b) ==
    IF b = <<>> THEN FALSE
    ELSE IF a = <<>> THEN TRUE
    ELSE IF Head(a) # Head(b) THEN Head(a) < Head(b)
    ELSE StrLess(Tail(a), Tail(b))

\* sorted(all_items, key=extract_item_date): stable
RECURSIVE InsertByKey(_, _)
InsertByKey(sorted, x) ==
    IF sorted = <<>> THEN <<x>>
    ELSE IF StrLess(extract_item_date(x), extract_item_date(Head(sorted)))
    THEN <<x>> \o sorted
    ELSE <<Head(sorted)>> \o InsertByKey(Tail(sorted), x)

RECURSIVE SortedByKey(_)
SortedByKey(items) ==
    IF items = <<>> THEN <<>>
    ELSE InsertByKey(SortedByKey(SubSeq(items, 1, Len(items) - 1)),
                     items[Len(items)])

\* itertools.groupby(items, extract_item_date): runs of equal keys
RECURSIVE GroupBy(_)
GroupBy(items) ==
    IF items = <<>> THEN <<>>
    ELSE LET rest == GroupBy(Tail(items))
             x    == Head(items)
         IN  IF rest # <<>> /\ extract_item_date(Head(rest[1])) = extract_item_date(x)
             THEN <<(<<x>> \o rest[1])>> \o Tail(rest)
             ELSE <<(<<x>>)>> \o rest

\* the rows of one group: uuid4 is drawn row by row, as the groups are yielded
Rows(items, id0) ==
    [i \in 1..Len(items) |-> [insertId |-> id0 + i, json |-> items[i]]]

RECURSIVE YieldGroups(_, _)
YieldGroups(groups, id0) ==
    IF groups = <<>> THEN <<>>
    ELSE <<[suffix |-> extract_item_date(Head(groups)[1]),
            batch  |-> Rows(Head(groups), id0)]>>
         \o YieldGroups(Tail(groups), id0 + Len(Head(groups)))

\* compute_batches(all_items), with id0 the number of uuids drawn so far
compute_batches(all_items, id0) ==
    YieldGroups(GroupBy(SortedByKey(all_items)), id0)

(* ------------------------------- state -------------------------------- *)

VARIABLES
    token,      \* server(token=...)
    cpc,        \* handle_connection: where each handler stands
    rest,       \* the lines of the chunk recieve_data has not yet parsed
    cur,        \* the record the handler is putting
    framed,     \* records yielded so far by each connection's LineReceiver
    closes,     \* calls of lr.close() per connection
    nin,        \* lines received so far, over all connections
    q,          \* trio.Queue(qsize)
    batch,      \* sender: the batch being collected
    elapsed,    \* sender: ticks since move_on_after(batch_timeout) was entered
    tasks,      \* the send_batch tasks started in the sender's nursery
    nextId,     \* uuids drawn so far
    up,         \* the server's nursery is alive
    nenq,       \* history: puts completed so far
    ndeq,       \* history: gets completed so far
    bind,       \* server(bind=..., port=...)
    listen,     \* the address and port the listener of serve_tcp is bound to
    fatal,      \* history: where an unhandled fault has left its task
    pin,        \* history: the lines last handed to parse_line
    pout        \* history: what parse_line made of them

vars == <<token, cpc, rest, cur, framed, closes, nin, q, batch, elapsed,
          tasks, nextId, up, nenq, ndeq, bind, listen, fatal, pin, pout>>

\* what only the start of the server, a fatal fault and the decoding of
\* lines on their own change
auxVars == <<bind, listen, fatal, pin, pout>>

connVars == <<cpc, rest, cur, framed, closes, nin>>
sendVars == <<batch, elapsed>>

NoRecord == [ts |-> None, conn |-> 0, n |-> 0, seq |-> 0]

(* --------------------------- handle_connection ------------------------ *)

\* LineReceiver.recieve_data, run up to its next yield: the lines go through
\* the callback one by one, a result of None is skipped
RECURSIVE recieve_data(_, _)
recieve_data(lines, tok) ==
    IF lines = <<>> THEN [kind |-> "end", ts |-> None, rest |-> <<>>]
    ELSE LET r == parse_line(Head(lines), tok)
         IN  IF r.out = "raise"
             THEN [kind |-> "raise", ts |-> None, rest |-> Tail(lines)]
             ELSE IF r.out = "None"
             THEN recieve_data(Tail(lines), tok)
             ELSE [kind |-> "msg", ts |-> r.ts, rest |-> Tail(lines)]

\* the for loop of handle_connection, resumed on `lines`: it stops at the
\* next q.put, at the end of the chunk, or with the exception of parse_line
ForEachMsg(c, lines) ==
    LET r == recieve_data(lines, token)
    IN  /\ rest' = [rest EXCEPT ![c] = r.rest]
        /\ IF r.kind = "msg"
           THEN /\ cpc' = [cpc EXCEPT ![c] = "put"]
                /\ cur' = [cur EXCEPT ![c] =
                              [ts |-> r.ts, conn |-> c, n |-> framed[c] + 1, seq |-> 0]]
                /\ framed' = [framed EXCEPT ![c] = @ + 1]
                /\ up' = up
           ELSE IF r.kind = "end"
           THEN /\ cpc' = [cpc EXCEPT ![c] = "receive"]
                /\ cur' = [cur EXCEPT ![c] = NoRecord]
                /\ UNCHANGED <<framed, up>>
           ELSE \* the exception leaves handle_connection and the nurseries
                /\ cpc' = [cpc EXCEPT ![c] = "raised"]
                /\ cur' = [cur EXCEPT ![c] = NoRecord]
                /\ up' = FALSE
                /\ UNCHANGED framed

\* stream.receive_some(1024) returns data
Receive(c, data) ==
    /\ up /\ cpc[c] = "receive"
    /\ nin + Len(data) <= MaxInput
    /\ nin' = nin + Len(data)
    /\ ForEachMsg(c, data)
    /\ UNCHANGED <<token, closes, q, batch, elapsed, tasks, nextId, nenq, ndeq>>
    /\ UNCHANGED auxVars

\* receive_some returns b"": lr.close() and break
ReceiveEOF(c) ==
    /\ up /\ cpc[c] = "receive"
    /\ cpc' = [cpc EXCEPT ![c] = "closed"]
    /\ closes' = [closes EXCEPT ![c] = @ + 1]
    /\ UNCHANGED <<token, rest, cur, framed, nin, q, batch, elapsed, tasks,
                   nextId, up, nenq, ndeq>>
    /\ UNCHANGED auxVars

\* mutant: trio.BrokenStreamError is not caught and leaves the handler
ReceiveBrokenRaises(c) ==
    /\ up /\ cpc[c] = "receive"
    /\ cpc' = [cpc EXCEPT ![c] = "raised"]
    /\ up' = FALSE
    /\ UNCHANGED <<token, rest, cur, framed, closes, nin, q, batch, elapsed,
                   tasks, nextId, nenq, ndeq>>
    /\ UNCHANGED auxVars

\* receive_some raises trio.BrokenStreamError: data = b""
ReceiveBroken(c) ==
    /\ up /\ cpc[c] = "receive"
    /\ cpc' = [cpc EXCEPT ![c] = "closed"]
    /\ closes' = [closes EXCEPT ![c] = @ + 1]
    /\ UNCHANGED <<token, rest, cur, framed, nin, q, batch, elapsed, tasks,
                   nextId, up, nenq, ndeq>>
    /\ UNCHANGED auxVars

\* mutant: one record more than the capacity
CanPutOneMore(queue) == Len(queue) <= QSize

\* trio.Queue.put may complete
CanPut(queue) == Len(queue) < QSize

\* mutant: q.put_nowait(msg), and a record that meets a full queue is
\* dropped
PutNoWait(c) ==
    /\ up /\ cpc[c] = "put"
    /\ IF CanPut(q)
       THEN /\ q' = Append(q, [cur[c] EXCEPT !.seq = nenq + 1])
            /\ nenq' = nenq + 1
       ELSE UNCHANGED <<q, nenq>>
    /\ ForEachMsg(c, rest[c])
    /\ UNCHANGED <<token, closes, nin, batch, elapsed, tasks, nextId, ndeq>>
    /\ UNCHANGED auxVars

\* await q.put(msg) completes, and the for loop goes on
Put(c) ==
    /\ up /\ cpc[c] = "put"
    /\ CanPut(q)
    /\ q' = Append(q, [cur[c] EXCEPT !.seq = nenq + 1])
    /\ nenq' = nenq + 1
    /\ ForEachMsg(c, rest[c])
    /\ UNCHANGED <<token, closes, nin, batch, elapsed, tasks, nextId, ndeq>>
    /\ UNCHANGED auxVars

(* -------------------------------- sender ------------------------------ *)

InsertIds(rows) == [i \in 1..Len(rows) |-> rows[i].insertId]

\* a send_batch task started by nursery.start_soon, in its first insert_all;
\* sent is the history of the insertIds passed to insert_all, call by call,
\* ok the number of calls that returned, fault the last fault of a call
NewTask(sub) ==
    [suffix |-> sub.suffix, batch |-> sub.batch, attempt |-> 1, pc |-> "insert",
     result |-> "none", fault |-> None, ok |-> 0,
     sent |-> <<InsertIds(sub.batch)>>]

\* mutant: await send_batch(...) in the loop of sender: the sub-batches are
\* sent one by one and no task is left when the next cycle starts
StartSoonAwaited(subs) == <<>>

\* nursery.start_soon(partial(send_batch, ...)) for each sub-batch
StartSoon(subs) == [i \in 1..Len(subs) |-> NewTask(subs[i])]

\* mutant: the tasks are started and the records stay in the batch
DispatchKeepsBatch(b) ==
    LET subs == compute_batches(b, nextId)
    IN  /\ tasks' = tasks \o StartSoon(subs)
        /\ nextId' = nextId + Len(b)
        /\ batch' = b
        /\ elapsed' = 0

\* the end of a cycle: one send_batch task per sub-batch of compute_batches,
\* then batch = [] and a new move_on_after
Dispatch(b) ==
    LET subs == compute_batches(b, nextId)
    IN  /\ tasks' = tasks \o StartSoon(subs)
        /\ nextId' = nextId + Len(b)
        /\ batch' = <<>>
        /\ elapsed' = 0

\* mutant: the deadline is noticed one tick late
ExpiredLate(e) == e > BatchTimeout

\* the deadline of move_on_after(batch_timeout) has passed
Expired(e) == e >= BatchTimeout

\* mutant: while len(batch) <= batch_size
CollectingOneMore(b) == Len(b) <= BatchSize

\* while len(batch) < batch_size
Collecting(b) == Len(b) < BatchSize

\* mutant: the newest record first
QGetNewest(queue) == queue[Len(queue)]

\* the record trio.Queue.get returns
QGet(queue) == Head(queue)

\* the queue after the get
QRemove(queue) == Tail(queue)

\* batch.append(await q.get())
SenderGet ==
    /\ up /\ ~Expired(elapsed) /\ Collecting(batch)
    /\ q # <<>>
    /\ q' = QRemove(q)
    /\ ndeq' = ndeq + 1
    /\ LET b == Append(batch, QGet(q))
       IN  IF Collecting(b)
           THEN /\ batch' = b
                /\ UNCHANGED <<elapsed, tasks, nextId>>
           ELSE Dispatch(b)
    /\ UNCHANGED <<token, connVars, up, nenq>>
    /\ UNCHANGED auxVars

\* time passes in the cycle
Tick ==
    /\ up /\ ~Expired(elapsed)
    /\ elapsed' = elapsed + 1
    /\ UNCHANGED <<token, connVars, q, batch, tasks, nextId, up, nenq, ndeq>>
    /\ UNCHANGED auxVars

\* mutant: the deadline discards what the cycle has collected
SenderTimeoutDropsBatch ==
    /\ up /\ Expired(elapsed)
    /\ Dispatch(<<>>)
    /\ UNCHANGED <<token, connVars, q, up, nenq, ndeq>>
    /\ UNCHANGED auxVars

\* move_on_after cancels the pending q.get()
SenderTimeout ==
    /\ up /\ Expired(elapsed)
    /\ Dispatch(batch)
    /\ UNCHANGED <<token, connVars, q, up, nenq, ndeq>>
    /\ UNCHANGED auxVars

(* ------------------------ send_batch and the retry -------------------- *)

\* how an attempt ends: insert_all returns, fail_after(api_timeout) raises
\* trio.TooSlowError, or insert_all raises a fault of the sink
Outcomes == {"returned", "TooSlowError", "SinkError"}

\* mutant: every fault of the sink is retried
RetryIfAnyFault(outcome) == outcome # "returned"

\* mutant: the call is repeated whatever its outcome
RetryIfAlways(outcome) == TRUE

\* tenacity.retry_if_exception_type(trio.TooSlowError), on an attempt's outcome
RetryIf(outcome) == outcome = "TooSlowError"

\* mutant: one attempt too many
StopLate(attempt) == attempt > StopAfterAttempt

\* tenacity.stop_after_attempt(15)
Stop(attempt) == attempt >= StopAfterAttempt

\* mutant: except trio.TooSlowError
CaughtTooSlowOnly(fault) == fault = "TooSlowError"

\* send_batch: except Exception
Caught(fault) == fault \in {"TooSlowError", "SinkError", "RetryError"}

\* mutant: the rows get new insertIds on every attempt
AttemptBatchFresh(t) ==
    [r \in 1..Len(t.batch) |->
        [t.batch[r] EXCEPT !.insertId = @ + 100 * t.attempt]]

\* the rows actually_send_batch passes to bq.insert_all on an attempt
AttemptBatch(t) == t.batch

\* the backoff sleep ends and tenacity calls actually_send_batch again
Retry(i) ==
    /\ up /\ i \in 1..Len(tasks)
    /\ tasks[i].pc = "sleep"
    /\ tasks' = [tasks EXCEPT ![i] =
           [@ EXCEPT !.pc = "insert",
                     !.attempt = @ + 1,
                     !.sent = Append(@, InsertIds(AttemptBatch(tasks[i])))]]
    /\ UNCHANGED <<token, connVars, q, sendVars, nextId, up, nenq, ndeq>>
    /\ UNCHANGED auxVars

\* send_batch ends as `t`: the nursery lets go of the task, which is kept
\* as history where `keep` says so
Finish(i, t, keep) ==
    IF keep THEN [tasks EXCEPT ![i] = t]
    ELSE SubSeq(tasks, 1, i - 1) \o SubSeq(tasks, i + 1, Len(tasks))

\* actually_send_batch raises `fault` to send_batch, which drops the batch
\* if it catches the fault; otherwise the fault takes the nurseries down
Raise(i, t, fault, keep) ==
    IF Caught(fault)
    THEN /\ tasks' = Finish(i, [t EXCEPT !.pc = "done", !.result = "dropped",
                                        !.fault = fault], keep)
         /\ up' = up
    ELSE /\ tasks' = [tasks EXCEPT ![i] =
                [t EXCEPT !.pc = "done", !.result = "raised", !.fault = fault]]
         /\ up' = FALSE

\* an attempt ends with `outcome`, and tenacity decides: hand the outcome
\* on, give up with the last fault (reraise=True), or sleep and retry
AttemptEnds(i, outcome, keep) ==
    /\ up /\ i \in 1..Len(tasks)
    /\ tasks[i].pc = "insert"
    /\ LET t == [tasks[i] EXCEPT
                    !.ok = IF outcome = "returned" THEN @ + 1 ELSE @,
                    !.fault = IF outcome = "returned" THEN @ ELSE outcome]
       IN  IF ~RetryIf(outcome)
           THEN IF outcome = "returned"
                THEN /\ tasks' = Finish(i, [t EXCEPT !.pc = "done",
                                                   !.result = "sent"], keep)
                     /\ up' = up
                ELSE Raise(i, t, outcome, keep)
           ELSE IF Stop(t.attempt)
           THEN Raise(i, t, IF outcome = "returned" THEN "RetryError" ELSE outcome,
                      keep)
           ELSE /\ tasks' = [tasks EXCEPT ![i] = [t EXCEPT !.pc = "sleep"]]
                /\ up' = up
    /\ UNCHANGED <<token, connVars, q, sendVars, nextId, nenq, ndeq>>
    /\ UNCHANGED auxVars

\* bq.insert_all returns within the deadline
InsertReturns(i, keep) == AttemptEnds(i, "returned", keep)

\* mutant: insert_all is called without a deadline
InsertNoDeadline(i, keep) == FALSE /\ AttemptEnds(i, "TooSlowError", keep)

\* fail_after(api_timeout) expires during the call
InsertTooSlow(i, keep) == AttemptEnds(i, "TooSlowError", keep)

\* the sink reports another fault
InsertFails(i, keep) == AttemptEnds(i, "SinkError", keep)

(* ------------------------------ listener ------------------------------ *)

\* server(bind="0.0.0.0", port=512)
Defaults == [host |-> "0.0.0.0", port |-> 512]

\* the addresses and ports server() is started with
Binds == { [host |-> h, port |-> p] : h \in {"0.0.0.0", "127.0.0.1"}, p \in {512, 5140} }

\* trio.serve_tcp(handler, port, host=None): without a host the listener
\* accepts on every interface
serve_tcp(port, host) ==
    [host |-> IF host = None THEN "0.0.0.0" ELSE host, port |-> port]

\* no listener yet
Unbound == [host |-> "", port |-> 0]

\* nursery.start(trio.serve_tcp, partial(handle_connection, ...), port):
\* the port is handed on, bind is not
Listener(b) == serve_tcp(b.port, None)

\* server(bind=b.host, port=b.port) has started the sender and the listener
ServerStarted(b) ==
    /\ bind = b
    /\ listen = Listener(b)
    /\ fatal = "none"
    /\ pin = <<>>
    /\ pout = <<>>

\* the listener has accepted a connection, and the LineReceiver of its
\* handler calls partial(parse_line, token=token) on each line of `data`
Decode(data) ==
    /\ up /\ listen # Unbound
    /\ pin' = data
    /\ pout' = [k \in 1..Len(data) |-> parse_line(data[k], token)]
    /\ UNCHANGED <<token, connVars, q, sendVars, tasks, nextId, up, nenq, ndeq,
                   bind, listen, fatal>>

\* nursery.start(trio.serve_tcp, ...) returns: the listener is bound
Serve ==
    /\ up /\ listen = Unbound
    /\ listen' = Listener(bind)
    /\ UNCHANGED <<token, connVars, q, sendVars, tasks, nextId, up, nenq, ndeq,
                   bind, fatal, pin, pout>>

(* ------------------------------- faults ------------------------------- *)

\* mutant: sender is restarted after a fault, only the listener's fault
\* leaves server
PropagatesListenerOnly(kind) == kind = "listener"

\* sender and serve_tcp are children of the nursery of server, the
\* send_batch tasks children of the nursery of sender, the handlers children
\* of the nursery of serve_tcp; neither sender nor server catches anything,
\* so the exception of a child cancels every task of the nursery of server
Propagates(kind) == TRUE

\* an exception leaves the task `kind`, all that the nurseries let go on
\* afterwards is what does not propagate
Fault(kind) ==
    /\ up /\ fatal = "none"
    /\ fatal' = kind
    /\ up' = ~Propagates(kind)
    /\ UNCHANGED <<token, connVars, q, sendVars, tasks, nextId, nenq, ndeq,
                   bind, listen, pin, pout>>

\* an exception leaves the while loop of sender
SenderFault == Fault("sender")

\* an exception leaves trio.serve_tcp
ListenerFault == Fault("listener")

(* --------------------------- specifications --------------------------- *)

\* the server as server() leaves it: the sender started, the listener bound
Init ==
    /\ token \in Tokens
    /\ cpc = [c \in Conns |-> "receive"]
    /\ rest = [c \in Conns |-> <<>>]
    /\ cur = [c \in Conns |-> NoRecord]
    /\ framed = [c \in Conns |-> 0]
    /\ closes = [c \in Conns |-> 0]
    /\ nin = 0
    /\ q = <<>>
    /\ batch = <<>>
    /\ elapsed = 0
    /\ tasks = <<>>
    /\ nextId = 0
    /\ up = TRUE
    /\ nenq = 0
    /\ ndeq = 0
    /\ ServerStarted(Defaults)

Handlers ==
    \/ \E c \in Conns : \E data \in Chunks : Receive(c, data)
    \/ \E c \in Conns : ReceiveEOF(c)
    \/ \E c \in Conns : ReceiveBroken(c)
    \/ \E c \in Conns : Put(c)

Sender ==
    \/ SenderGet
    \/ Tick
    \/ SenderTimeout

\* the whole server; the sink times out at most MaxSlow times per sub-batch
Next ==
    \/ Handlers
    \/ Sender
    \/ \E i \in 1..Len(tasks) : Retry(i)
    \/ \E i \in 1..Len(tasks) : InsertReturns(i, FALSE)
    \/ \E i \in 1..Len(tasks) : tasks[i].attempt <= MaxSlow /\ InsertTooSlow(i, FALSE)
    \/ \E i \in 1..Len(tasks) : InsertFails(i, FALSE)

Spec == Init /\ [][Next]_vars

\* the batches one connection can have sent through the queue
Batches ==
    UNION { [1..n -> Timestamps] : n \in 1..BatchSize }

\* the server right after the sender has dispatched one batch, every
\* connection being closed
InitRetry ==
    \E b \in Batches :
      LET items == [i \in 1..Len(b) |-> [ts |-> b[i], conn |-> 1, n |-> i, seq |-> i]]
      IN  /\ token = None
          /\ cpc = [c \in Conns |-> "closed"]
          /\ rest = [c \in Conns |-> <<>>]
          /\ cur = [c \in Conns |-> NoRecord]
          /\ framed = [c \in Conns |-> IF c = 1 THEN Len(b) ELSE 0]
          /\ closes = [c \in Conns |-> 1]
          /\ nin = Len(b)
          /\ q = <<>>
          /\ batch = <<>>
          /\ elapsed = 0
          /\ tasks = StartSoon(compute_batches(items, 0))
          /\ nextId = Len(b)
          /\ up = TRUE
          /\ nenq = Len(b)
          /\ ndeq = Len(b)
          /\ ServerStarted(Defaults)

\* the send_batch tasks under every behaviour of the sink, and the sender
NextRetry ==
    \/ Tick
    \/ SenderTimeout
    \/ \E i \in 1..Len(tasks) : Retry(i)
    \/ \E i \in 1..Len(tasks) : InsertReturns(i, TRUE)
    \/ \E i \in 1..Len(tasks) : InsertTooSlow(i, TRUE)
    \/ \E i \in 1..Len(tasks) : InsertFails(i, TRUE)

SpecRetry == InitRetry /\ [][NextRetry]_vars

\* the send_batch tasks where time goes on: a call of insert_all that does
\* not end otherwise meets the deadline of fail_after(api_timeout), and the
\* sleep before a retry ends; nothing is assumed of the sink
SpecRetryFair ==
    /\ SpecRetry
    /\ \A i \in 1..BatchSize : WF_vars(InsertTooSlow(i, TRUE))
    /\ \A i \in 1..BatchSize : WF_vars(Retry(i))

\* the whole server, where sender and the listener may fail
NextFault ==
    \/ Next
    \/ SenderFault
    \/ ListenerFault

SpecFault == Init /\ [][NextFault]_vars

\* server() called with any bind, port and token, before its listener is
\* bound
InitDecode ==
    /\ token \in Tokens
    /\ bind \in Binds
    /\ listen = Unbound
    /\ fatal = "none"
    /\ pin = <<>>
    /\ pout = <<>>
    /\ cpc = [c \in Conns |-> "receive"]
    /\ rest = [c \in Conns |-> <<>>]
    /\ cur = [c \in Conns |-> NoRecord]
    /\ framed = [c \in Conns |-> 0]
    /\ closes = [c \in Conns |-> 0]
    /\ nin = 0
    /\ q = <<>>
    /\ batch = <<>>
    /\ elapsed = 0
    /\ tasks = <<>>
    /\ nextId = 0
    /\ up = TRUE
    /\ nenq = 0
    /\ ndeq = 0

\* the start of the listener, and parse_line by itself on every chunk
NextDecode ==
    \/ Serve
    \/ \E data \in DecodeChunks : Decode(data)

SpecDecode == InitDecode /\ [][NextDecode]_vars

(* ------------------------------- claims ------------------------------- *)

Tasks == 1..Len(tasks)

\* C1: parse_line returns a record or nothing and never raises, whatever the
\* bytes of the line, so no handler leaves its loop on a line and the
\* connection and the server stay up.
C1_ParseLineNeverRaises ==
    /\ up
    /\ \A c \in Conns : cpc[c] # "raised"

\* C2: no fault of the sink insert escapes send_batch: the task ends with
\* its sub-batch dropped, the server stays up, and the step that drops it
\* changes neither another task nor the sender.
C2_NoFaultEscapes ==
    /\ [](up /\ \A i \in Tasks :
              /\ tasks[i].result # "raised"
              /\ (tasks[i].pc = "done" /\ tasks[i].ok = 0
                    => tasks[i].result = "dropped"))
    /\ [][\A i \in Tasks :
              tasks[i].pc = "insert" /\ tasks'[i].pc = "done"
                                     /\ tasks'[i].result # "sent"
              => /\ tasks'[i].result = "dropped"
                 /\ up'
                 /\ Len(tasks') = Len(tasks)
                 /\ \A j \in Tasks \ {i} : tasks'[j] = tasks[j]
                 /\ <<batch, elapsed, q>>' = <<batch, elapsed, q>>]_vars

\* C2 witness: one sub-batch dropped after the retries were exhausted, another
\* dropped on a fault of the sink, the server up.
C2_Witness ==
    /\ up
    /\ \E i, j \in Tasks :
          /\ tasks[i].result = "dropped" /\ tasks[i].fault = "TooSlowError"
          /\ tasks[j].result = "dropped" /\ tasks[j].fault = "SinkError"

\* C3: a sub-batch is inserted at most 15 times: no sleep follows the 15th
\* attempt, and a sub-batch dropped on the timeout was attempted 15 times.
C3_AtMostFifteenAttempts ==
    \A i \in Tasks :
        /\ Len(tasks[i].sent) = tasks[i].attempt
        /\ tasks[i].attempt <= 15
        /\ (tasks[i].pc = "sleep" => tasks[i].attempt < 15)
        /\ (tasks[i].result = "dropped" /\ tasks[i].fault = "TooSlowError"
              => tasks[i].attempt = 15 /\ tasks[i].ok = 0)

\* C3 witness: a sub-batch dropped after 15 insert calls that all timed out.
C3_Witness ==
    \E i \in Tasks :
        /\ tasks[i].result = "dropped" /\ tasks[i].fault = "TooSlowError"
        /\ Len(tasks[i].sent) = 15

\* C4: a fault other than the timeout ends the task at once, its sub-batch
\* dropped: no sleep and no insert call follows it.
C4_NoRetryOnOtherFault ==
    /\ [](\A i \in Tasks :
              tasks[i].fault = "SinkError"
              => tasks[i].pc = "done" /\ tasks[i].result = "dropped")
    /\ [][\A i \in Tasks :
              tasks[i].fault = "SinkError" => tasks'[i] = tasks[i]]_vars

\* C4 witness: the sink fault at the fifth attempt, after four timeouts.
C4_Witness ==
    \E i \in Tasks :
        /\ tasks[i].fault = "SinkError" /\ tasks[i].result = "dropped"
        /\ tasks[i].attempt = 5 /\ Len(tasks[i].sent) = 5

\* C5: once an insert call has returned, the task is over: exactly one call
\* returned, no call follows it, and the task ends without a fault.
C5_StopsAfterSuccess ==
    /\ [](\A i \in Tasks :
              /\ tasks[i].ok <= 1
              /\ (tasks[i].ok = 1 <=> tasks[i].result = "sent")
              /\ (tasks[i].ok = 1 => tasks[i].pc = "done"))
    /\ [][\A i \in Tasks :
              tasks[i].ok = 1 => tasks'[i] = tasks[i] /\ up']_vars

\* C5 witness: attempts 1 to 4 timed out and attempt 5 returned.
C5_Witness ==
    \E i \in Tasks :
        /\ tasks[i].result = "sent" /\ tasks[i].attempt = 5
        /\ tasks[i].fault = "TooSlowError" /\ tasks[i].ok = 1

\* C6, as stated: every retry sends, for every record, an identifier that
\* differs from the one sent for that record on every earlier attempt.
C6_FreshTokensOnRetry ==
    \A i \in Tasks :
        \A a, b \in 1..Len(tasks[i].sent) :
            a < b => \A r \in 1..Len(tasks[i].batch) :
                         tasks[i].sent[b][r] # tasks[i].sent[a][r]

\* C6, amended: every attempt sends the identifiers compute_batches drew for
\* the sub-batch, so a retry repeats the identifier of every record.
C6_SameTokensOnRetry ==
    \A i \in Tasks :
        \A a \in 1..Len(tasks[i].sent) :
            tasks[i].sent[a] = InsertIds(tasks[i].batch)

\* C6 witness: a sub-batch of two records in its third attempt.
C6_Witness ==
    \E i \in Tasks :
        /\ Len(tasks[i].batch) = 2
        /\ tasks[i].pc = "insert" /\ Len(tasks[i].sent) = 3

\* the step ends a collection cycle of the sender
CycleEnds == elapsed' < elapsed \/ nextId' > nextId

\* the step completes a q.get()
Gets == ndeq' > ndeq

\* the batch the ending cycle has collected
Collected == IF Gets THEN Append(batch, Head(q)) ELSE batch

\* the send_batch tasks the step starts
Started == SubSeq(tasks', Len(tasks) + 1, Len(tasks'))

\* the records of the rows of a sub-batch
Json(rows) == [r \in 1..Len(rows) |-> rows[r].json]

\* the records the server holds: queued, collected or being sent
Live ==
    {q[k] : k \in 1..Len(q)} \cup {batch[k] : k \in 1..Len(batch)}
    \cup UNION { {tasks[i].batch[r].json : r \in 1..Len(tasks[i].batch)} :
                 i \in Tasks }

\* C7: the queue never holds more than its capacity; a handler whose put
\* meets a full queue keeps its record and its place, and the step in which a
\* put completes finds room in the queue and appends the record to it; only a
\* get of the sender makes room.
C7_QueueBounded ==
    /\ [](Len(q) <= QSize)
    /\ [][/\ \A c \in Conns :
                cpc[c] = "put" /\ Len(q) >= QSize
                => cpc'[c] = "put" /\ cur'[c] = cur[c] /\ rest'[c] = rest[c]
          /\ \A c \in Conns :
                cpc[c] = "put" /\ <<cpc[c], cur[c]>>' # <<cpc[c], cur[c]>>
                => /\ Len(q) < QSize
                   /\ q' = Append(q, [cur[c] EXCEPT !.seq = nenq + 1])
          /\ (Len(q') < Len(q) => Gets /\ q' = Tail(q))]_vars

\* C7 witness: a handler blocked in put on a full queue that holds records
\* of both connections.
C7_Witness ==
    /\ Len(q) = QSize
    /\ \E c \in Conns : cpc[c] = "put" /\ \E k \in 1..Len(q) : q[k].conn # c

\* C8: the queue holds the records in the order of their put, the sender takes
\* the oldest one, and the records of one connection are put in the order in
\* which its LineReceiver yielded them.
C8_Fifo ==
    /\ [](/\ \A k \in 1..Len(q) : q[k].seq = ndeq + k
          /\ \A k \in 1..Len(batch) : batch[k].seq = ndeq - Len(batch) + k
          /\ \A x, y \in Live :
                x.conn = y.conn /\ x.n < y.n => x.seq < y.seq
          /\ \A c \in Conns : \A x \in Live :
                cpc[c] = "put" /\ x.conn = c => x.n < cur[c].n)
    /\ [][Gets => /\ ndeq' = ndeq + 1
                  /\ Head(q).seq = ndeq'
                  /\ q' = Tail(q)
                  /\ \/ batch' = Append(batch, Head(q))
                     \/ \E j \in 1..Len(Started) :
                           \E r \in 1..Len(Started[j].batch) :
                              Started[j].batch[r].json = Head(q)]_vars

\* C8 witness: two records of one connection taken in their order while a
\* record of the other connection, put after them, waits in the queue.
C8_Witness ==
    /\ Len(batch) = 2 /\ Len(q) = 1
    /\ batch[1].conn = batch[2].conn
    /\ q[1].conn # batch[1].conn

\* the items of a date, in their order
OnDate(items, date) == SelectSeq(items, LAMBDA x : DateOf(x.ts) = date)

\* C9: at the end of a cycle the sender starts exactly one task per calendar
\* date of the batch, none for an empty batch; the task of a date carries the
\* records of that date, in their order in the batch, and the key of the date.
C9_OneSubBatchPerDate ==
    [][CycleEnds =>
        LET dates == {DateOf(Collected[k].ts) : k \in 1..Len(Collected)}
        IN  /\ SubSeq(tasks', 1, Len(tasks)) = tasks
            /\ Len(Started) = Cardinality(dates)
            /\ \A j \in 1..Len(Started) :
                  LET date == DateOf(Started[j].batch[1].json.ts)
                  IN  /\ date \in dates
                      /\ Json(Started[j].batch) = OnDate(Collected, date)
                      /\ Started[j].suffix =
                            Pad4(date[1]) \o Digits(date[2])
                            \o Digits(DaysBefore(date[1], date[2]) + date[3])
                      /\ Started[j].pc = "insert"]_vars

\* C9 witness: the batch [D1, D2, D1] has been split in the sub-batch of its
\* first and third record and the sub-batch of its second record.
C9_Witness ==
    \E i, j \in Tasks :
        /\ Len(tasks[i].batch) = 2 /\ Len(tasks[j].batch) = 1
        /\ tasks[i].batch[1].json.seq = 1
        /\ tasks[j].batch[1].json.seq = 2
        /\ tasks[i].batch[2].json.seq = 3
        /\ tasks[i].suffix # tasks[j].suffix

\* C10: a cycle ends with the get that brings the batch to batch_size, before
\* the timeout, or when batch_timeout has elapsed, with what it has collected;
\* no get completes once the timeout has elapsed, and no batch exceeds
\* batch_size.
C10_CycleEnds ==
    /\ [](Len(batch) < BatchSize /\ elapsed <= BatchTimeout)
    /\ [][/\ (Gets => elapsed < BatchTimeout /\ Len(Collected) <= BatchSize)
          /\ (Gets /\ Len(Collected) = BatchSize => CycleEnds)
          /\ (CycleEnds =>
                /\ batch' = <<>> /\ elapsed' = 0
                /\ nextId' = nextId + Len(Collected)
                /\ \/ Gets /\ Len(Collected) = BatchSize
                   \/ ~Gets /\ elapsed = BatchTimeout
                            /\ Len(Collected) < BatchSize)
          /\ (elapsed = BatchTimeout /\ <<batch, elapsed>>' # <<batch, elapsed>>
                => CycleEnds)]_vars

\* C10 witness: a whole batch of batch_size records of one date is being sent,
\* and a later cycle has run into its timeout.
C10_Witness ==
    /\ elapsed = BatchTimeout
    /\ \E i \in Tasks : Len(tasks[i].batch) = BatchSize

\* C11: once an exception has left sender or the listener, the scope of
\* server is cancelled: from that step on no handler reads, closes or puts,
\* sender gets nothing and dispatches nothing, no send_batch task inserts,
\* retries or ends, and the queue and the partial batch stay as they are
C11_FaultTearsDown ==
    /\ [](fatal # "none" => ~up)
    /\ [][fatal' # "none" =>
            UNCHANGED <<connVars, q, sendVars, tasks, nextId, nenq, ndeq>>]_vars

\* a fault of sender while a record is queued, another is in the partial
\* batch, a send_batch task sleeps before its retry and a handler reads
C11_Witness ==
    /\ fatal = "sender" /\ ~up
    /\ q # <<>> /\ batch # <<>>
    /\ \E i \in Tasks : tasks[i].pc = "sleep"
    /\ \E c \in Conns : cpc[c] = "receive"

\* C12: a read that fails with a broken stream or returns no bytes ends the
\* handler as the end of the stream does: the step closes the LineReceiver
\* once and raises nothing, it leaves the queue, sender, the tasks and the
\* other handlers as they are, and the handler reads and puts no more
C12_EndOfStream ==
    /\ [](\A c \in Conns : closes[c] = IF cpc[c] = "closed" THEN 1 ELSE 0)
    /\ [][\A c \in Conns :
            /\ cpc[c] = "receive" /\ nin' = nin /\ cpc'[c] # "receive"
                => /\ cpc'[c] = "closed" /\ closes'[c] = closes[c] + 1
                   /\ up' = up
                   /\ \A d \in Conns \ {c} : cpc'[d] = cpc[d] /\ closes'[d] = closes[d]
                   /\ UNCHANGED <<rest, cur, framed, q, nenq, ndeq, sendVars,
                                   tasks, nextId>>
            /\ cpc[c] = "closed"
                => /\ cpc'[c] = "closed"
                   /\ rest'[c] = rest[c] /\ cur'[c] = cur[c]
                   /\ framed'[c] = framed[c]]_vars

\* a handler has ended at the end of its stream after a record of its own
\* was queued, and another handler goes on, blocked in put
C12_Witness ==
    /\ up
    /\ \E c \in Conns :
          /\ cpc[c] = "closed" /\ closes[c] = 1 /\ framed[c] >= 1
          /\ \E d \in Conns \ {c} : cpc[d] = "put"

\* the records decoded so far by the handlers 1..n
RECURSIVE Framed(_)
Framed(n) == IF n = 0 THEN 0 ELSE framed[n] + Framed(n - 1)

\* the sum of the sizes of the sub-batches of the send_batch tasks `ts`
RECURSIVE Dispatching(_)
Dispatching(ts) ==
    IF ts = <<>> THEN 0 ELSE Len(Head(ts).batch) + Dispatching(Tail(ts))

\* the handlers that hold a decoded record in a pending q.put
Putting == Cardinality({c \in Conns : cpc[c] = "put"})

\* the decoded records the server holds: in a pending put, in the queue,
\* in the batch sender collects, and in the sub-batches being dispatched
Held == Putting + Len(q) + Len(batch) + Dispatching(tasks)

C14_TokenCheck ==
    \A k \in 1..Len(pin) :
        LET line   == pin[k]
            r      == pout[k]
            starts == /\ Len(token) <= Len(line.prefix)
                      /\ \A j \in 1..Len(token) : line.prefix[j] = token[j]
        IN  IF token = None
            THEN line.utf8 => r.syslog = 1 /\ r.arg = line.prefix
            ELSE /\ ~starts => r.out # "event" /\ r.syslog = 0 /\ r.event = 0
                 /\ starts /\ line.utf8
                        => /\ r.syslog = 1
                           /\ token \o r.arg = line.prefix

\* one chunk with a line that carries the token after another character,
\* which is rejected, and a line that carries it twice, of which the syslog
\* parser is given the second
C14_Witness ==
    /\ token # None /\ Len(pin) = 2
    /\ pin[1].prefix = <<"x">> \o Secret /\ pout[1].syslog = 0
    /\ pin[2].prefix = Secret \o Secret /\ pout[2].arg = Secret

\* C15: the listener accepts on the host and on the port server() was
\* called with
C15_ListenerBound ==
    listen # Unbound => listen.host = bind.host /\ listen.port = bind.port

\* C16: sender never waits for a send_batch task: the step that ends a
\* cycle leaves every task it starts in its first insert_all call, not yet
\* answered, leaves the tasks started in earlier cycles as they are, in
\* their call or asleep, and leaves sender at the start of its next cycle;
\* a step in which sender takes a record changes no task in flight
C16_FireAndForget ==
    [][/\ CycleEnds
           => /\ batch' = <<>> /\ elapsed' = 0
              /\ Len(tasks') >= Len(tasks)
              /\ SubSeq(tasks', 1, Len(tasks)) = tasks
              /\ Collected # <<>> => Started # <<>>
              /\ \A j \in 1..Len(Started) :
                    /\ Started[j].pc = "insert" /\ Started[j].attempt = 1
                    /\ Started[j].ok = 0 /\ Started[j].result = "none"
       /\ Gets => SubSeq(tasks', 1, Len(tasks)) = tasks]_vars

\* the tasks of two cycles are in flight, one asleep before its retry and
\* one in its insert_all call, and sender has taken a record of a third
C16_Witness ==
    /\ batch # <<>>
    /\ \E i, j \in Tasks :
          /\ i < j /\ tasks[i].suffix = tasks[j].suffix
          /\ tasks[i].pc = "sleep" /\ tasks[j].pc = "insert"

\* C17: a handler that may read holds no decoded record and has no line of
\* its last chunk left; every record decoded so far is in the queue, past
\* it, or in the pending put of its handler; a handler in a pending put
\* stays there with its record and the rest of its chunk until the step
\* that appends the record to the queue, and the record appended is the next
\* one its connection has decoded
C17_PutBeforeRead ==
    /\ [](\A c \in Conns :
            cpc[c] = "receive" => cur[c] = NoRecord /\ rest[c] = <<>>)
    /\ [](Framed(NumConns) = nenq + Putting)
    /\ [][\A c \in Conns :
            cpc[c] = "put"
            => \/ cpc'[c] = "put" /\ cur'[c] = cur[c] /\ rest'[c] = rest[c]
                  /\ framed'[c] = framed[c]
               \/ /\ q' = Append(q, [cur[c] EXCEPT !.seq = nenq + 1])
                  /\ cur[c].n = framed[c]
                  /\ nin' = nin]_vars

\* a handler is blocked on the full queue with the second record it has
\* decoded, the first being queued
C17_Witness ==
    \E c \in Conns :
        /\ cpc[c] = "put" /\ Len(q) = QSize /\ cur[c].n = 2
        /\ \E k \in 1..Len(q) : q[k].conn = c /\ q[k].n = 1

\* C18: every record sender has taken from the queue is in the batch of the
\* running cycle or was handed to a send_batch task; the step that ends a
\* cycle, by the last get or by the deadline, puts every record the cycle has
\* collected into exactly one row of the sub-batches it starts and starts no
\* other row, leaves nothing in the batch for the next cycle, and takes
\* nothing from the queue when it is the deadline that ends the cycle
C18_Conservation ==
    /\ [](ndeq = nextId + Len(batch))
    /\ [][CycleEnds =>
            /\ batch' = <<>>
            /\ Dispatching(Started) = Len(Collected)
            /\ \A k \in 1..Len(Collected) :
                  Cardinality({ jr \in (1..Len(Started)) \X (1..BatchSize) :
                      /\ jr[2] <= Len(Started[jr[1]].batch)
                      /\ Started[jr[1]].batch[jr[2]].json = Collected[k] }) = 1
            /\ ~Gets => q' = q /\ Collected = batch]_vars

\* the deadline has ended a cycle that held two records of two dates, the
\* one whose key sorts first taken last: each is in the sub-batch of its
\* date, and a record that had not been taken is still in the queue
C18_Witness ==
    /\ Len(tasks) = 2 /\ q # <<>> /\ batch = <<>>
    /\ Json(tasks[1].batch) # <<>> /\ tasks[1].batch[1].json.seq = 2
    /\ Json(tasks[2].batch) # <<>> /\ tasks[2].batch[1].json.seq = 1
    /\ Len(tasks[1].batch) + Len(tasks[2].batch) < BatchSize

\* the i-th send_batch task, if there is one
TaskAt(i) == IF i \in Tasks THEN tasks[i] ELSE [pc |-> "none", result |-> "none"]

\* C19: every send_batch task ends, its sub-batch delivered or dropped,
\* whether or not the sink ever answers; and no attempt lasts for ever: an
\* insert_all call in flight ends, by its answer or by the deadline, and the
\* task then is done or asleep before the next attempt
C19_DispatcherTerminates ==
    /\ \A i \in 1..BatchSize :
          (i \in Tasks)
              ~> (i \in Tasks /\ TaskAt(i).pc = "done"
                              /\ TaskAt(i).result \in {"sent", "dropped"})
    /\ \A i \in 1..BatchSize :
          (i \in Tasks /\ TaskAt(i).pc = "insert")
              ~> (i \in Tasks /\ TaskAt(i).pc \in {"sleep", "done"})

\* the sink has answered no call of any task: every task has met the
\* deadline in each of its attempts and has dropped its sub-batch
C19_Witness ==
    /\ Len(tasks) >= 2
    /\ \A i \in Tasks :
          /\ tasks[i].pc = "done" /\ tasks[i].result = "dropped"
          /\ tasks[i].ok = 0 /\ tasks[i].fault = "TooSlowError"
          /\ Len(tasks[i].sent) = StopAfterAttempt

\* C20: the keys of the sub-batches all have the same length, and two
\* sub-batches have the same key exactly if their records are of the same
\* calendar date
C20_FixedWidthDateKey ==
    \A i, j \in Tasks :
        tasks[i].batch # <<>> /\ tasks[j].batch # <<>>
        => /\ Len(tasks[i].suffix) = Len(tasks[j].suffix)
           /\ tasks[i].suffix = tasks[j].suffix
                  <=> DateOf(tasks[i].batch[1].json.ts)
                          = DateOf(tasks[j].batch[1].json.ts)

====
